---- MODULE Spec2Model ----
(***************************************************************************)
(* Model of the policy-chat-rag ingestion chunker (src/src/scripts/       *)
(* ingest.py), its ingestion run (main) and the query-time retrieval of   *)
(* src/src/services/rag.py.                                               *)
(*                                                                         *)
(* Strings are run-length encoded: a string is a sequence of pieces, a    *)
(* piece being either one space character (SP) or a block of n characters *)
(* that are not whitespace, tagged with the block's identity.  Lengths,   *)
(* strip() and " ".join() are computed on this encoding.                  *)
(***************************************************************************)
EXTENDS Integers, Sequences, FiniteSets, TLC

(***************************************************************************)
(* Bounds of the model.                                                    *)
(***************************************************************************)
MaxFrags == 3
MaxRaw == 3
MaxEmb == 4
MaxTexts == 3
MaxDocBlocks == 3
MaxIndex == 3
MaxRuns == 2
MaxToolCalls == 2

(***************************************************************************)
(* Program constants.                                                      *)
(***************************************************************************)
DefaultMinLen == 100
DefaultChunkSize == 300
DefaultMaxLength == 1500
DefaultPercentile == 85
BypassLen == 100
DefaultNClusters == 6
DefaultTopK == 5
DefaultThreshold == 12

(***************************************************************************)
(* Input domains.                                                          *)
(***************************************************************************)
FragLens == {100, 699, 700, 1500}
RawLens == {30, 49, 50, 120, 280}
MaxLengths == {800, DefaultMaxLength}
Percentiles == {0, 50, DefaultPercentile, 100}
EmbIds == 1..3
DocLens == {2, 120, 1400}
IndexDistances == {3, DefaultThreshold, 15}
Thresholds == {5, DefaultThreshold}
TopKs == {1, DefaultTopK}
Sources == {"a.md", "b.md"}

VARIABLES
    entry,        \* the function under call
    pc,           \* position of the call
    chunks,       \* recursive_chunk: the fragments it was called with
    embeddings,   \* recursive_chunk, find_breakpoints: one embedding per fragment
    max_length,   \* recursive_chunk
    percentile,   \* recursive_chunk, find_breakpoints
    todo,         \* recursive_chunk: pending calls and segments, in output order
    results,      \* recursive_chunk: the chunks returned so far
    breakpoints,  \* find_breakpoints: its return value
    raw,          \* initial_split: the fragments the text splitter returned
    merged,       \* initial_split: its return value
    text,         \* chunk_document: the document text
    docChunks,    \* chunk_document: its return value
    embedCalls,   \* number of calls of embed() made so far
    texts,        \* cluster_chunks: its input
    n_clusters,   \* cluster_chunks
    cluster_ids,  \* cluster_chunks: its return value
    index,        \* the vector index: its documents, with their distance to the question
    top_k,        \* RAGService.top_k
    threshold,    \* RAGService.threshold, in tenths
    docs,         \* RAGService.query: the documents the retriever returned
    answer,       \* RAGService.query: its return value
    llmCalls,     \* number of LLM completions requested so far
    mpc,          \* ingestion main(): its position
    backup,       \* the backup file chunks_backup.json on disk
    backupAtUpload, \* the backup file as it was when add_documents was called
    documents,    \* main(): the documents load_documents returned
    all_chunks,   \* main(): the chunk set
    use_backup,   \* main(): the operator's answer to "Use existing backup?"
    uploads,      \* the chunk sets add_documents has stored, oldest first
    runs,         \* number of ingestion runs started
    cluster_labels, \* main(): the mapping label_clusters returned
    failedCalls,  \* label_clusters: the cluster ids whose LLM call raised
    saved,        \* main(): what save_chunks_backup returned in this run
    startCalls,   \* history: embedCalls and llmCalls when this run started
    prevRun,      \* history: how the previous run ended, and its chunk set
    agents,       \* the PolicyAgent instances created so far, each with its _last_sources
    agentOf,      \* per chat request: the instance get_agent handed it, 0 before
    rpc,          \* per chat request: its position
    returned,     \* per chat request: the sources invoke returned
    ownCalls,     \* history, per chat request: the sources of each of its retrievals
    lastCaller,   \* history: the request that made the latest retrieval, 0 before
    response      \* per chat request: the HTTP response of the /chat handler

chunkVars == <<chunks, embeddings, max_length, percentile, todo, results>>
docVars == <<text, docChunks, embedCalls>>
clusterVars == <<texts, n_clusters, cluster_ids>>

queryVars == <<index, top_k, threshold, docs, answer>>
ingestVars == <<mpc, backup, backupAtUpload, documents, all_chunks, use_backup,
                uploads, runs, cluster_labels, failedCalls, saved, startCalls,
                prevRun>>

chatVars == <<agents, agentOf, rpc, returned, ownCalls, lastCaller, response>>

vars == <<entry, pc, chunkVars, breakpoints, raw, merged, docVars, clusterVars,
          queryVars, llmCalls, ingestVars, chatVars>>

(***************************************************************************)
(* Strings.                                                                *)
(***************************************************************************)
SP == [id |-> 0, n |-> 1]

Block(i, len) == <<[id |-> i, n |-> len]>>

RECURSIVE StrLen(_)
StrLen(s) == IF s = <<>> THEN 0 ELSE Head(s).n + StrLen(Tail(s))

RECURSIVE LStrip(_)
LStrip(s) == IF s # <<>> /\ Head(s).id = 0 THEN LStrip(Tail(s)) ELSE s

RECURSIVE RStrip(_)
RStrip(s) ==
    IF s # <<>> /\ s[Len(s)].id = 0 THEN RStrip(SubSeq(s, 1, Len(s) - 1)) ELSE s

Strip(s) == RStrip(LStrip(s))

RECURSIVE JoinSp(_)
JoinSp(strs) ==
    IF strs = <<>> THEN <<>>
    ELSE IF Len(strs) = 1 THEN strs[1]
    ELSE strs[1] \o <<SP>> \o JoinSp(Tail(strs))

RECURSIVE SumLen(_)
SumLen(strs) == IF strs = <<>> THEN 0 ELSE StrLen(Head(strs)) + SumLen(Tail(strs))

Slice(s, a, b) == SubSeq(s, a + 1, IF b < Len(s) THEN b ELSE Len(s))

Min(a, b) == IF a < b THEN a ELSE b

(***************************************************************************)
(* Embeddings: integer vectors with integer norms, so that 25 times the   *)
(* cosine distance of any two of them is an integer.                      *)
(***************************************************************************)
Vec(e) == CASE e = 1 -> <<1, 0>> [] e = 2 -> <<3, 4>> [] e = 3 -> <<0, 1>>
            [] OTHER -> <<4, 3>>

Norm(e) == CASE e = 1 -> 1 [] e = 2 -> 5 [] e = 3 -> 1 [] OTHER -> 5

Dot(u, v) == u[1] * v[1] + u[2] * v[2]

cosine(a, b) == 25 - (25 * Dot(Vec(a), Vec(b))) \div (Norm(a) * Norm(b))

(***************************************************************************)
(* find_breakpoints (ingest.py 65-72).  Indices are 0-based as in the      *)
(* code: index i stands for the gap between fragment i and fragment i+1.   *)
(* Distances are 25 times the cosine distance; the percentile is numpy's   *)
(* default (linear interpolation between the two nearest ranks), kept      *)
(* exact by comparing 100 * d with 100 * threshold.                        *)
(***************************************************************************)
Distances(embs) == [j \in 1..(Len(embs) - 1) |-> cosine(embs[j + 1], embs[j])]

Threshold100(distances, pct) ==
    LET sd == SortSeq(distances, LAMBDA a, b : a < b)
        h  == (Len(sd) - 1) * pct
        lo == h \div 100
        r  == h % 100
    IN  IF r = 0 THEN 100 * sd[lo + 1]
        ELSE 100 * sd[lo + 1] + r * (sd[lo + 2] - sd[lo + 1])

RECURSIVE IndicesFrom_Strict(_, _, _)
IndicesFrom_Strict(distances, t100, j) ==
    IF j > Len(distances) THEN <<>>
    ELSE (IF 100 * distances[j] > t100 THEN <<j - 1>> ELSE <<>>)
         \o IndicesFrom_Strict(distances, t100, j + 1)

RECURSIVE IndicesFrom(_, _, _)
IndicesFrom(distances, t100, j) ==
    IF j > Len(distances) THEN <<>>
    ELSE (IF 100 * distances[j] >= t100 THEN <<j - 1>> ELSE <<>>)
         \o IndicesFrom(distances, t100, j + 1)

find_breakpoints(embs, pct) ==
    IF Len(embs) < 2 THEN <<>>
    ELSE LET distances == Distances(embs)
         IN  IndicesFrom(distances, Threshold100(distances, pct), 1)

(***************************************************************************)
(* The merge step of initial_split (ingest.py 49-62): a fold of the        *)
(* splitter's fragments over the pair (merged, buffer).                    *)
(***************************************************************************)
MergeStep_NoGuard(st, chunk, min_len) ==
    LET combined == IF st.buffer # <<>> THEN Strip(st.buffer \o <<SP>> \o chunk)
                    ELSE chunk
    IN  IF StrLen(combined) < min_len
        THEN [merged |-> st.merged, buffer |-> combined]
        ELSE [merged |-> Append(st.merged, st.buffer), buffer |-> chunk]

MergeStep(st, chunk, min_len) ==
    LET combined == IF st.buffer # <<>> THEN Strip(st.buffer \o <<SP>> \o chunk)
                    ELSE chunk
    IN  IF StrLen(combined) < min_len
        THEN [merged |-> st.merged, buffer |-> combined]
        ELSE [merged |-> IF st.buffer # <<>> THEN Append(st.merged, st.buffer)
                         ELSE st.merged,
              buffer |-> chunk]

RECURSIVE MergeLoop(_, _, _)
MergeLoop(st, rest, min_len) ==
    IF rest = <<>> THEN st
    ELSE MergeLoop(MergeStep(st, Head(rest), min_len), Tail(rest), min_len)

MergeShort(cs, min_len) ==
    LET st == MergeLoop([merged |-> <<>>, buffer |-> <<>>], cs, min_len)
    IN  IF st.buffer # <<>> THEN Append(st.merged, st.buffer) ELSE st.merged

(***************************************************************************)
(* recursive_chunk (ingest.py 75-112).  A call is a work item with         *)
(* rec = TRUE; a segment that line 110 joins without recursing is a work   *)
(* item with rec = FALSE.  The work list is processed depth first, left to *)
(* right, which is the order in which the code extends its result list.    *)
(***************************************************************************)
Item(cs, es, r) == [chunks |-> cs, embeddings |-> es, rec |-> r]

BaseCase_NoSingle(cs, maxlen) == Len(cs) < 1 \/ SumLen(cs) < maxlen

BaseCase(cs, maxlen) == Len(cs) <= 1 \/ SumLen(cs) < maxlen

MidpointSplit(cs, es) ==
    LET mid == Len(cs) \div 2
    IN  << Item(Slice(cs, 0, mid), Slice(es, 0, mid), TRUE),
           Item(Slice(cs, mid, Len(cs)), Slice(es, mid, Len(es)), TRUE) >>

RECURSIVE SegmentsAt_NoTail(_, _, _, _)
SegmentsAt_NoTail(cs, es, bps, prev) ==
    IF bps = <<>> THEN <<>>
    ELSE LET bp == Head(bps)
         IN  << <<Slice(cs, prev, bp + 1), Slice(es, prev, bp + 1)>> >>
             \o SegmentsAt_NoTail(cs, es, Tail(bps), bp + 1)

RECURSIVE SegmentsAt(_, _, _, _)
SegmentsAt(cs, es, bps, prev) ==
    IF bps = <<>>
    THEN IF prev < Len(cs)
         THEN << <<Slice(cs, prev, Len(cs)), Slice(es, prev, Len(es))>> >>
         ELSE <<>>
    ELSE LET bp == Head(bps)
         IN  << <<Slice(cs, prev, bp + 1), Slice(es, prev, bp + 1)>> >>
             \o SegmentsAt(cs, es, Tail(bps), bp + 1)

NeedsRecursion(seg_chunks, maxlen) ==
    SumLen(seg_chunks) >= maxlen /\ Len(seg_chunks) > 1

SplitItems(cs, es, maxlen, pct) ==
    LET bps == find_breakpoints(es, pct)
    IN  IF bps = <<>> THEN MidpointSplit(cs, es)
        ELSE LET segments == SegmentsAt(cs, es, bps, 0)
             IN  [k \in 1..Len(segments) |->
                    Item(segments[k][1], segments[k][2],
                         NeedsRecursion(segments[k][1], maxlen))]

(***************************************************************************)
(* cluster_chunks (ingest.py 115-124).  The embeddings of the texts are    *)
(* the embedder's choice, so the order in which average linkage merges the *)
(* clusters is any order; cut_tree numbers the flat clusters as scipy      *)
(* does: a merged cluster takes the smaller of the two labels and every    *)
(* label above the larger one moves down by one.                           *)
(***************************************************************************)
Labels(g) == {g[i] : i \in 1..Len(g)}

MergeGroups(g, a, b) ==
    [i \in 1..Len(g) |-> IF g[i] = b THEN a
                         ELSE IF g[i] > b THEN g[i] - 1 ELSE g[i]]

RECURSIVE CutTreeAfter(_, _)
CutTreeAfter(n, merges) ==
    IF merges = 0 THEN {[i \in 1..n |-> i - 1]}
    ELSE UNION {{MergeGroups(g, ab[1], ab[2]) :
                   ab \in {p \in Labels(g) \X Labels(g) : p[1] < p[2]}} :
                g \in CutTreeAfter(n, merges - 1)}

cut_tree(n, k) ==
    IF k >= 1 /\ k <= n THEN CutTreeAfter(n, n - k) ELSE {[i \in 1..n |-> 0]}

cluster_chunks_NoClip(ts, k) ==
    IF Len(ts) < 2 THEN {[i \in 1..Len(ts) |-> 0]}
    ELSE cut_tree(Len(ts), k)

cluster_chunks(ts, k) ==
    IF Len(ts) < 2 THEN {[i \in 1..Len(ts) |-> 0]}
    ELSE cut_tree(Len(ts), Min(k, Len(ts)))

ClusterEmbedCalls(ts) == IF Len(ts) < 2 THEN 0 ELSE 1

(***************************************************************************)
(* chunk_document (ingest.py 152-177).  The text splitter is langchain's:  *)
(* it returns the words of the text grouped into contiguous runs, each run *)
(* stripped, none empty; which grouping is the splitter's choice.          *)
(***************************************************************************)
RECURSIVE Words(_)
Words(s) ==
    IF s = <<>> THEN <<>>
    ELSE IF Head(s).id = 0 THEN Words(Tail(s))
    ELSE <<  <<Head(s)>>  >> \o Words(Tail(s))

RECURSIVE Groupings(_)
Groupings(ws) ==
    IF ws = <<>> THEN {<<>>}
    ELSE UNION {{<<JoinSp(SubSeq(ws, 1, k))>> \o g :
                   g \in Groupings(SubSeq(ws, k + 1, Len(ws)))} : k \in 1..Len(ws)}

split_text(t) == Groupings(Words(t))

initial_split(t) == {MergeShort(cs, DefaultMinLen) : cs \in split_text(t)}

DocChunk(t, i, c) ==
    [text |-> t, metadata |-> [file_name |-> "policy.md", chunk_index |-> i,
                               cluster_id |-> c]]

WholeDocument_NoStrip(t) == <<DocChunk(t, 0, 0)>>

WholeDocument(t) == <<DocChunk(Strip(t), 0, 0)>>

RECURSIVE StripNonEmpty(_)
StripNonEmpty(ts) ==
    IF ts = <<>> THEN <<>>
    ELSE (IF Strip(Head(ts)) # <<>> THEN <<Strip(Head(ts))>> ELSE <<>>)
         \o StripNonEmpty(Tail(ts))

DocChunks(final_texts, ids) ==
    [i \in 1..Len(final_texts) |-> DocChunk(final_texts[i], i - 1, ids[i])]

(***************************************************************************)
(* Inputs.  Fragment i of an input is one block tagged i.                  *)
(***************************************************************************)
BlockSeqs(n, lens) ==
    {[i \in 1..n |-> Block(i, f[i])] : f \in [1..n -> lens]}

NoChunking ==
    /\ chunks = <<>> /\ embeddings = <<>> /\ max_length = DefaultMaxLength
    /\ percentile = DefaultPercentile /\ todo = <<>> /\ results = <<>>

NoDoc == text = <<>> /\ docChunks = <<>> /\ embedCalls = 0

Pad(s) == <<SP>> \o s \o <<SP>>

DocTexts ==
    UNION {{JoinSp(bs) : bs \in BlockSeqs(n, DocLens)} : n \in 0..MaxDocBlocks}

NoCluster == texts = <<>> /\ n_clusters = DefaultNClusters /\ cluster_ids = <<>>

InitRecursiveChunk ==
    /\ entry = "recursive_chunk" /\ pc = "chunking"
    /\ \E n \in 1..MaxFrags :
         /\ chunks \in BlockSeqs(n, FragLens)
         /\ embeddings \in [1..n -> EmbIds]
    /\ max_length \in MaxLengths
    /\ percentile = DefaultPercentile
    /\ todo = <<Item(chunks, embeddings, TRUE)>>
    /\ results = <<>>
    /\ breakpoints = <<>> /\ raw = <<>> /\ merged = <<>>
    /\ NoDoc /\ NoCluster

InitFindBreakpoints ==
    /\ entry = "find_breakpoints" /\ pc = "call"
    /\ \E n \in 0..MaxEmb : embeddings \in [1..n -> EmbIds]
    /\ percentile \in Percentiles
    /\ chunks = <<>> /\ max_length = DefaultMaxLength /\ todo = <<>> /\ results = <<>>
    /\ breakpoints = <<>> /\ raw = <<>> /\ merged = <<>>
    /\ NoDoc /\ NoCluster

InitInitialSplit ==
    /\ entry = "initial_split" /\ pc = "call"
    /\ \E n \in 0..MaxRaw : raw \in BlockSeqs(n, RawLens)
    /\ merged = <<>> /\ breakpoints = <<>>
    /\ NoChunking /\ NoDoc /\ NoCluster

(***************************************************************************)
(* recursive_chunk, one step per call or emitted segment.                  *)
(***************************************************************************)
RecursiveChunkBase ==
    /\ pc = "chunking" /\ todo # <<>> /\ Head(todo).rec
    /\ BaseCase(Head(todo).chunks, max_length)
    /\ results' = Append(results, JoinSp(Head(todo).chunks))
    /\ todo' = Tail(todo)
    /\ UNCHANGED <<queryVars, llmCalls, ingestVars, chatVars>>
    /\ UNCHANGED <<entry, pc, chunks, embeddings, max_length, percentile,
                   breakpoints, raw, merged, docVars, clusterVars>>

RecursiveChunkSplit ==
    /\ pc = "chunking" /\ todo # <<>> /\ Head(todo).rec
    /\ ~BaseCase(Head(todo).chunks, max_length)
    /\ todo' = SplitItems(Head(todo).chunks, Head(todo).embeddings,
                          max_length, percentile) \o Tail(todo)
    /\ UNCHANGED <<queryVars, llmCalls, ingestVars, chatVars>>
    /\ UNCHANGED <<entry, pc, chunks, embeddings, max_length, percentile, results,
                   breakpoints, raw, merged, docVars, clusterVars>>

EmitSegment ==
    /\ pc = "chunking" /\ todo # <<>> /\ ~Head(todo).rec
    /\ results' = Append(results, JoinSp(Head(todo).chunks))
    /\ todo' = Tail(todo)
    /\ UNCHANGED <<queryVars, llmCalls, ingestVars, chatVars>>
    /\ UNCHANGED <<entry, pc, chunks, embeddings, max_length, percentile,
                   breakpoints, raw, merged, docVars, clusterVars>>

RecursiveChunkReturn ==
    /\ entry = "recursive_chunk" /\ pc = "chunking" /\ todo = <<>>
    /\ pc' = "done"
    /\ UNCHANGED <<queryVars, llmCalls, ingestVars, chatVars>>
    /\ UNCHANGED <<entry, chunkVars, breakpoints, raw, merged, docVars, clusterVars>>

FindBreakpoints ==
    /\ entry = "find_breakpoints" /\ pc = "call"
    /\ breakpoints' = find_breakpoints(embeddings, percentile)
    /\ pc' = "done"
    /\ UNCHANGED <<queryVars, llmCalls, ingestVars, chatVars>>
    /\ UNCHANGED <<entry, chunkVars, raw, merged, docVars, clusterVars>>

InitialSplit ==
    /\ entry = "initial_split" /\ pc = "call"
    /\ merged' = MergeShort(raw, DefaultMinLen)
    /\ pc' = "done"
    /\ UNCHANGED <<queryVars, llmCalls, ingestVars, chatVars>>
    /\ UNCHANGED <<entry, chunkVars, breakpoints, raw, docVars, clusterVars>>

InitClusterChunks ==
    /\ entry = "cluster_chunks" /\ pc = "call"
    /\ \E n \in 0..MaxTexts : texts \in BlockSeqs(n, {DefaultMinLen})
    /\ n_clusters \in 1..DefaultNClusters
    /\ cluster_ids = <<>>
    /\ breakpoints = <<>> /\ raw = <<>> /\ merged = <<>>
    /\ NoChunking /\ NoDoc

InitChunkDocument ==
    /\ entry = "chunk_document" /\ pc = "call"
    /\ \E t \in DocTexts : text \in {t, Pad(t)}
    /\ docChunks = <<>> /\ embedCalls = 0
    /\ breakpoints = <<>> /\ raw = <<>> /\ merged = <<>>
    /\ NoChunking /\ NoCluster

ClusterChunks ==
    /\ entry = "cluster_chunks" /\ pc = "call"
    /\ cluster_ids' \in cluster_chunks(texts, n_clusters)
    /\ embedCalls' = embedCalls + ClusterEmbedCalls(texts)
    /\ pc' = "done"
    /\ UNCHANGED <<queryVars, llmCalls, ingestVars, chatVars>>
    /\ UNCHANGED <<entry, chunkVars, breakpoints, raw, merged, text, docChunks,
                   texts, n_clusters>>

(***************************************************************************)
(* chunk_document: ingest.py 154-155, 157-159, 157-162 and 163-177.        *)
(***************************************************************************)
ChunkDocumentShort ==
    /\ entry = "chunk_document" /\ pc = "call"
    /\ StrLen(Strip(text)) < BypassLen
    /\ docChunks' = WholeDocument(text)
    /\ pc' = "done"
    /\ UNCHANGED <<queryVars, llmCalls, ingestVars, chatVars>>
    /\ UNCHANGED <<entry, chunkVars, breakpoints, raw, merged, text, embedCalls,
                   clusterVars>>

ChunkDocumentFewFragments ==
    /\ entry = "chunk_document" /\ pc = "call"
    /\ ~(StrLen(Strip(text)) < BypassLen)
    /\ \E cs \in split_text(text) :
         /\ raw' = cs
         /\ merged' = MergeShort(cs, DefaultMinLen)
    /\ Len(merged') < 2
    /\ docChunks' = WholeDocument(text)
    /\ pc' = "done"
    /\ UNCHANGED <<queryVars, llmCalls, ingestVars, chatVars>>
    /\ UNCHANGED <<entry, chunkVars, breakpoints, text, embedCalls, clusterVars>>

ChunkDocumentEmbed ==
    /\ entry = "chunk_document" /\ pc = "call"
    /\ ~(StrLen(Strip(text)) < BypassLen)
    /\ \E cs \in split_text(text) :
         /\ raw' = cs
         /\ merged' = MergeShort(cs, DefaultMinLen)
    /\ ~(Len(merged') < 2)
    /\ embeddings' \in [1..Len(merged') -> EmbIds]
    /\ embedCalls' = embedCalls + 1
    /\ chunks' = merged'
    /\ todo' = <<Item(chunks', embeddings', TRUE)>>
    /\ results' = <<>>
    /\ pc' = "chunking"
    /\ UNCHANGED <<queryVars, llmCalls, ingestVars, chatVars>>
    /\ UNCHANGED <<entry, max_length, percentile, breakpoints, text, docChunks,
                   clusterVars>>

ChunkDocumentCluster ==
    /\ entry = "chunk_document" /\ pc = "chunking" /\ todo = <<>>
    /\ texts' = StripNonEmpty(results)
    /\ cluster_ids' \in cluster_chunks(texts', n_clusters)
    /\ embedCalls' = embedCalls + ClusterEmbedCalls(texts')
    /\ docChunks' = DocChunks(texts', cluster_ids')
    /\ pc' = "done"
    /\ UNCHANGED <<queryVars, llmCalls, ingestVars, chatVars>>
    /\ UNCHANGED <<entry, chunkVars, breakpoints, raw, merged, text, n_clusters>>

(***************************************************************************)
(* The parts of the state a specification does not use stay as they are    *)
(* here.                                                                   *)
(***************************************************************************)
Absent == [state |-> "absent", chunks |-> <<>>]

ChunkerIdle ==
    /\ entry = "none" /\ pc = "idle"
    /\ breakpoints = <<>> /\ raw = <<>> /\ merged = <<>>
    /\ NoChunking /\ NoDoc /\ NoCluster

QueryIdle ==
    /\ index = <<>> /\ top_k = DefaultTopK /\ threshold = DefaultThreshold
    /\ docs = <<>> /\ answer = [answer |-> "", sources |-> {}, num_docs |-> 0]

Requests == {1, 2}

NoResponse ==
    [status |-> 0, answer |-> <<>>, sources |-> {}, thread_id |-> <<>>,
     detail |-> ""]

ChatIdle ==
    /\ response = [r \in Requests |-> NoResponse]
    /\ agents = <<>> /\ agentOf = [r \in Requests |-> 0]
    /\ rpc = [r \in Requests |-> "idle"]
    /\ returned = [r \in Requests |-> {}]
    /\ ownCalls = [r \in Requests |-> <<>>]
    /\ lastCaller = 0

NoLabels == <<>>

NoRun == [end |-> "none", saved |-> FALSE, chunks |-> <<>>]

IngestIdle ==
    /\ mpc = "idle" /\ backup = Absent /\ backupAtUpload = Absent
    /\ documents = <<>> /\ all_chunks = <<>> /\ use_backup = FALSE
    /\ uploads = <<>> /\ runs = 0
    /\ cluster_labels = NoLabels /\ failedCalls = {} /\ saved = FALSE
    /\ startCalls = [embed |-> 0, llm |-> 0] /\ prevRun = NoRun

Init ==
    /\ \/ InitRecursiveChunk
       \/ InitFindBreakpoints
       \/ InitInitialSplit
       \/ InitClusterChunks
       \/ InitChunkDocument
    /\ QueryIdle /\ llmCalls = 0 /\ IngestIdle /\ ChatIdle

Next ==
    \/ RecursiveChunkBase
    \/ RecursiveChunkSplit
    \/ EmitSegment
    \/ RecursiveChunkReturn
    \/ FindBreakpoints
    \/ InitialSplit
    \/ ClusterChunks
    \/ ChunkDocumentShort
    \/ ChunkDocumentFewFragments
    \/ ChunkDocumentEmbed
    \/ ChunkDocumentCluster

Spec == Init /\ [][Next]_vars

(***************************************************************************)
(* Retrieval: RAGService.query (rag.py 52-90) over VectorStore.query.      *)
(* Distances and the threshold are in tenths.  VectorStore.query asks the  *)
(* index for the n_results nearest documents, nearest first, and discards  *)
(* those whose distance exceeds the threshold.                             *)
(***************************************************************************)
Nearest(ix, n) ==
    LET sorted == SortSeq(ix, LAMBDA a, b : a.distance < b.distance)
    IN  SubSeq(sorted, 1, Min(n, Len(sorted)))

WithinThreshold(ds, t) == SelectSeq(ds, LAMBDA d : d.distance <= t)

VectorStoreQuery(ix, n_results, t) == WithinThreshold(Nearest(ix, n_results), t)

Retrieve_Unfiltered(ix, k, t) == Nearest(ix, k)

Retrieve(ix, k, t) == VectorStoreQuery(ix, k, t)

format_context(ds) == [i \in 1..Len(ds) |-> <<ds[i].source, ds[i].text>>]

SourcesOf(ds) == {ds[i].source : i \in 1..Len(ds)}

IndexDocs(n) ==
    {[i \in 1..n |-> [text |-> i, source |-> f[i][1], distance |-> f[i][2]]] :
        f \in [1..n -> Sources \X IndexDistances]}

QueryInit ==
    /\ ChunkerIdle /\ IngestIdle /\ ChatIdle /\ llmCalls = 0
    /\ \E n \in 0..MaxIndex : index \in IndexDocs(n)
    /\ top_k \in TopKs
    /\ threshold \in Thresholds
    /\ docs = <<>>
    /\ answer = [answer |-> "", sources |-> {}, num_docs |-> 0]

QueryNoResults_Generate ==
    /\ answer.answer = ""
    /\ docs' = Retrieve(index, top_k, threshold)
    /\ docs' = <<>>
    /\ llmCalls' = llmCalls + 1
    /\ answer' = [answer |-> "generated", sources |-> SourcesOf(docs'),
                  num_docs |-> Len(docs')]
    /\ UNCHANGED <<index, top_k, threshold>>
    /\ UNCHANGED <<entry, pc, chunkVars, breakpoints, raw, merged, docVars,
                   clusterVars, ingestVars, chatVars>>

QueryNoResults ==
    /\ answer.answer = ""
    /\ docs' = Retrieve(index, top_k, threshold)
    /\ docs' = <<>>
    /\ answer' = [answer |-> "no_relevant_information", sources |-> {}, num_docs |-> 0]
    /\ UNCHANGED <<index, top_k, threshold, llmCalls>>
    /\ UNCHANGED <<entry, pc, chunkVars, breakpoints, raw, merged, docVars,
                   clusterVars, ingestVars, chatVars>>

QueryAnswer ==
    /\ answer.answer = ""
    /\ docs' = Retrieve(index, top_k, threshold)
    /\ docs' # <<>>
    /\ llmCalls' = llmCalls + 1
    /\ answer' = [answer |-> "generated", sources |-> SourcesOf(docs'),
                  num_docs |-> Len(docs')]
    /\ UNCHANGED <<index, top_k, threshold>>
    /\ UNCHANGED <<entry, pc, chunkVars, breakpoints, raw, merged, docVars,
                   clusterVars, ingestVars, chatVars>>

QueryNext == QueryNoResults \/ QueryAnswer

QuerySpec == QueryInit /\ [][QueryNext]_vars


(***************************************************************************)
(* The ingestion run, main() of ingest.py (241-322).  A document is its    *)
(* file name, the number of chunks chunk_document cuts it into and the     *)
(* identity of its first chunk's text.                                     *)
(***************************************************************************)
DocA == [name |-> "a.md", nchunks |-> 1, base |-> 10]

DocB == [name |-> "b.md", nchunks |-> 2, base |-> 20]

File(doc, readable) == [doc |-> doc, readable |-> readable]

FileLists ==
    {<<>>}
    \cup {<<File(d, r)>> : d \in {DocA, DocB}, r \in BOOLEAN}
    \cup {<<File(DocA, r1), File(DocB, r2)>> : r1 \in BOOLEAN, r2 \in BOOLEAN}

Directories ==
    {[exists |-> FALSE, files |-> <<>>]}
    \cup {[exists |-> TRUE, files |-> fs] : fs \in FileLists}

RECURSIVE ReadableDocs(_)
ReadableDocs(fs) ==
    IF fs = <<>> THEN <<>>
    ELSE (IF Head(fs).readable THEN <<Head(fs).doc>> ELSE <<>>)
         \o ReadableDocs(Tail(fs))

load_documents(dir) == IF ~dir.exists THEN <<>> ELSE ReadableDocs(dir.files)

DocumentLists == {load_documents(dir) : dir \in Directories}

\* json.dump writes a chunk as an object, a list of key-value pairs
json_dump(cs) ==
    [i \in 1..Len(cs) |->
        << <<"text", cs[i].text>>,
           <<"metadata",
             << <<"file_name", cs[i].metadata.file_name>>,
                <<"chunk_index", cs[i].metadata.chunk_index>>,
                <<"cluster_id", cs[i].metadata.cluster_id>>,
                <<"cluster_label", cs[i].metadata.cluster_label>> >> >> >>]

\* json.load reads an object back as a dict
ObjectOf(pairs) ==
    [k \in {pairs[i][1] : i \in DOMAIN pairs} |->
        pairs[CHOOSE i \in DOMAIN pairs : pairs[i][1] = k][2]]

json_load(js) ==
    [i \in 1..Len(js) |->
        [ObjectOf(js[i]) EXCEPT !.metadata = ObjectOf(@)]]

Valid(cs) == [state |-> "valid", chunks |-> json_dump(cs)]

Corrupt == [state |-> "corrupt", chunks |-> <<>>]

load_chunks_backup_Lenient(b) ==
    IF b.state = "absent" THEN [ok |-> FALSE, chunks |-> <<>>]
    ELSE [ok |-> TRUE,
          chunks |-> IF b.state = "valid" THEN json_load(b.chunks)
                     ELSE <<[text |-> <<>>,
                             metadata |-> [file_name |-> "", chunk_index |-> 0,
                                           cluster_id |-> 0,
                                           cluster_label |-> <<>>]]>>]

load_chunks_backup(b) ==
    IF b.state = "valid" THEN [ok |-> TRUE, chunks |-> json_load(b.chunks)]
    ELSE [ok |-> FALSE, chunks |-> <<>>]

Truthy(existing) == existing.ok /\ existing.chunks # <<>>

SaveOutcomes == {"saved", "failed_untouched", "failed_partial"}

save_chunks_backup(cs, b, outcome) ==
    CASE outcome = "saved" -> Valid(cs)
      [] outcome = "failed_partial" -> Corrupt
      [] OTHER -> b

DocTextsOf(doc) == [i \in 1..doc.nchunks |-> Block(doc.base + i, BypassLen)]

ChunksOf(doc, ids) ==
    [i \in 1..doc.nchunks |->
        [text |-> DocTextsOf(doc)[i],
         metadata |-> [file_name |-> doc.name, chunk_index |-> i - 1,
                       cluster_id |-> ids[i], cluster_label |-> <<>>]]]

ChunkDocumentOutcomes(doc) ==
    {ChunksOf(doc, ids) : ids \in cluster_chunks(DocTextsOf(doc), DefaultNClusters)}

DocEmbedCalls(doc) == IF doc.nchunks < 2 THEN 0 ELSE 2

RECURSIVE AllChunksOutcomes(_)
AllChunksOutcomes(ds) ==
    IF ds = <<>> THEN {<<>>}
    ELSE {cs \o rest : cs \in ChunkDocumentOutcomes(Head(ds)),
                       rest \in AllChunksOutcomes(Tail(ds))}

RECURSIVE TotalEmbedCalls(_)
TotalEmbedCalls(ds) ==
    IF ds = <<>> THEN 0 ELSE DocEmbedCalls(Head(ds)) + TotalEmbedCalls(Tail(ds))

ClusterIdsOf(cs) == {cs[i].metadata.cluster_id : i \in 1..Len(cs)}

\* the keys of grouped, in the order the chunks first show them
RECURSIVE Grouped(_, _)
Grouped(cs, seen) ==
    IF cs = <<>> THEN <<>>
    ELSE LET c == Head(cs).metadata.cluster_id
         IN IF c \in seen THEN Grouped(Tail(cs), seen)
            ELSE <<c>> \o Grouped(Tail(cs), seen \cup {c})

SetItem(d, k, v) == [x \in DOMAIN d \cup {k} |-> IF x = k THEN v ELSE d[x]]

\* one model.invoke per cluster, its failure caught inside the loop
RECURSIVE LabelLoop(_, _, _)
LabelLoop(ids, failed, labels) ==
    IF ids = <<>> THEN labels
    ELSE LET c == Head(ids)
         IN LabelLoop(Tail(ids), failed,
                      SetItem(labels, c, IF c \in failed THEN <<"cluster_", c>>
                                         ELSE <<"summary", c>>))

label_clusters_Abort(cs, failed) ==
    LET ids == Grouped(cs, {})
        bad == {i \in 1..Len(ids) : ids[i] \in failed}
        stop == IF bad = {} THEN Len(ids) + 1
                ELSE CHOOSE i \in bad : \A j \in bad : i <= j
    IN LabelLoop(SubSeq(ids, 1, stop - 1), failed, <<>>)

label_clusters(cs, failed) == LabelLoop(Grouped(cs, {}), failed, <<>>)

\* dict.get with its default
Get(labels, c) == IF c \in DOMAIN labels THEN labels[c] ELSE <<"unknown">>

Stamp_Unknown(cs, labels) ==
    [i \in 1..Len(cs) |-> [cs[i] EXCEPT !.metadata.cluster_label = <<"unknown">>]]

Stamp(cs, labels) ==
    [i \in 1..Len(cs) |->
        [cs[i] EXCEPT !.metadata.cluster_label =
                          Get(labels, cs[i].metadata.cluster_id)]]

IngestInit ==
    /\ ChunkerIdle /\ QueryIdle /\ ChatIdle /\ llmCalls = 0
    /\ mpc = "start" /\ backup = Absent /\ backupAtUpload = Absent
    /\ documents = <<>> /\ all_chunks = <<>> /\ use_backup = FALSE
    /\ uploads = <<>> /\ runs = 1
    /\ cluster_labels = NoLabels /\ failedCalls = {} /\ saved = FALSE
    /\ startCalls = [embed |-> 0, llm |-> 0] /\ prevRun = NoRun

IngestUnchanged ==
    UNCHANGED <<entry, pc, chunkVars, breakpoints, raw, merged, text, docChunks,
                clusterVars, queryVars, chatVars>>

MainReuseBackup_Reprocess ==
    /\ mpc = "start" /\ Truthy(load_chunks_backup(backup))
    /\ use_backup' = TRUE
    /\ all_chunks' = load_chunks_backup(backup).chunks
    /\ mpc' = "process"
    /\ UNCHANGED <<backup, backupAtUpload, documents, uploads, runs, llmCalls,
                   embedCalls, cluster_labels, failedCalls, saved, startCalls,
                   prevRun>>
    /\ IngestUnchanged

\* ingest.py 251-256: a usable backup is found and the operator accepts it
MainReuseBackup ==
    /\ mpc = "start" /\ Truthy(load_chunks_backup(backup))
    /\ use_backup' = TRUE
    /\ all_chunks' = load_chunks_backup(backup).chunks
    /\ mpc' = "upload"
    /\ UNCHANGED <<backup, backupAtUpload, documents, uploads, runs, llmCalls,
                   embedCalls, cluster_labels, failedCalls, saved, startCalls,
                   prevRun>>
    /\ IngestUnchanged

\* ingest.py 251-258: a usable backup is found and the operator declines it
MainDeclineBackup ==
    /\ mpc = "start" /\ Truthy(load_chunks_backup(backup))
    /\ use_backup' = FALSE
    /\ mpc' = "process"
    /\ UNCHANGED <<backup, backupAtUpload, documents, all_chunks, uploads, runs,
                   llmCalls, embedCalls, cluster_labels, failedCalls, saved,
                   startCalls, prevRun>>
    /\ IngestUnchanged

\* ingest.py 251-252: no backup, an unreadable one or an empty one
MainNoBackup ==
    /\ mpc = "start" /\ ~Truthy(load_chunks_backup(backup))
    /\ mpc' = "process"
    /\ UNCHANGED <<backup, backupAtUpload, documents, all_chunks, use_backup,
                   uploads, runs, llmCalls, embedCalls, cluster_labels,
                   failedCalls, saved, startCalls, prevRun>>
    /\ IngestUnchanged

MainNoDocuments_FallThrough ==
    /\ mpc = "process"
    /\ \E dir \in Directories :
         /\ load_documents(dir) = <<>>
         /\ documents' = load_documents(dir)
    /\ saved' = TRUE
    /\ backup' = save_chunks_backup(all_chunks, backup, "saved")
    /\ mpc' = "upload"
    /\ UNCHANGED <<backupAtUpload, all_chunks, use_backup, uploads, runs,
                   llmCalls, embedCalls, cluster_labels, failedCalls, startCalls,
                   prevRun>>
    /\ IngestUnchanged

\* ingest.py 261-267: nothing to ingest
MainNoDocuments ==
    /\ mpc = "process"
    /\ \E dir \in Directories :
         /\ load_documents(dir) = <<>>
         /\ documents' = load_documents(dir)
    /\ mpc' = "returned"
    /\ UNCHANGED <<backup, backupAtUpload, all_chunks, use_backup, uploads, runs,
                   llmCalls, embedCalls, cluster_labels, failedCalls, saved,
                   startCalls, prevRun>>
    /\ IngestUnchanged

\* ingest.py 261-290: load, chunk, label, stamp, save the backup
MainProcess ==
    /\ mpc = "process"
    /\ \E ds \in DocumentLists \ {<<>>} :
         /\ documents' = ds
         /\ embedCalls' = embedCalls + TotalEmbedCalls(ds)
         /\ \E cs \in AllChunksOutcomes(ds) :
              IF cs = <<>>
              THEN /\ all_chunks' = cs
                   /\ mpc' = "returned"
                   /\ UNCHANGED <<backup, llmCalls, cluster_labels, failedCalls,
                                  saved>>
              ELSE \E failed \in SUBSET ClusterIdsOf(cs), outcome \in SaveOutcomes :
                     /\ failedCalls' = failed
                     /\ llmCalls' = llmCalls + Len(Grouped(cs, {}))
                     /\ cluster_labels' = label_clusters(cs, failed)
                     /\ all_chunks' = Stamp(cs, cluster_labels')
                     /\ backup' = save_chunks_backup(all_chunks', backup, outcome)
                     /\ saved' = (outcome = "saved")
                     /\ mpc' = "upload"
    /\ UNCHANGED <<backupAtUpload, use_backup, uploads, runs, startCalls, prevRun>>
    /\ IngestUnchanged

MainUploadOk_KeepBackup ==
    /\ mpc = "upload"
    /\ backupAtUpload' = backup
    /\ uploads' = Append(uploads, all_chunks)
    /\ mpc' = "done"
    /\ UNCHANGED <<backup, documents, all_chunks, use_backup, runs, llmCalls,
                   embedCalls, cluster_labels, failedCalls, saved, startCalls,
                   prevRun>>
    /\ IngestUnchanged

\* ingest.py 305-316: add_documents returns, the backup is removed
MainUploadOk ==
    /\ mpc = "upload"
    /\ backupAtUpload' = backup
    /\ uploads' = Append(uploads, all_chunks)
    /\ backup' = Absent
    /\ mpc' = "done"
    /\ UNCHANGED <<documents, all_chunks, use_backup, runs, llmCalls, embedCalls,
                   cluster_labels, failedCalls, saved, startCalls, prevRun>>
    /\ IngestUnchanged

MainUploadFails_Unlink ==
    /\ mpc = "upload"
    /\ backupAtUpload' = backup
    /\ backup' = Absent
    /\ mpc' = "raised"
    /\ UNCHANGED <<documents, all_chunks, use_backup, uploads, runs, llmCalls,
                   embedCalls, cluster_labels, failedCalls, saved, startCalls,
                   prevRun>>
    /\ IngestUnchanged

\* ingest.py 305-310, 318-322: add_documents raises, the error is re-raised
MainUploadFails ==
    /\ mpc = "upload"
    /\ backupAtUpload' = backup
    /\ mpc' = "raised"
    /\ UNCHANGED <<backup, documents, all_chunks, use_backup, uploads, runs,
                   llmCalls, embedCalls, cluster_labels, failedCalls, saved,
                   startCalls, prevRun>>
    /\ IngestUnchanged

\* the operator runs the script again
NewRun ==
    /\ mpc \in {"done", "raised", "returned"} /\ runs < MaxRuns
    /\ runs' = runs + 1
    /\ mpc' = "start"
    /\ documents' = <<>> /\ all_chunks' = <<>> /\ use_backup' = FALSE
    /\ cluster_labels' = NoLabels /\ failedCalls' = {} /\ saved' = FALSE
    /\ startCalls' = [embed |-> embedCalls, llm |-> llmCalls]
    /\ prevRun' = [end |-> mpc, saved |-> saved, chunks |-> all_chunks]
    /\ UNCHANGED <<backup, backupAtUpload, uploads, llmCalls, embedCalls>>
    /\ IngestUnchanged

IngestNext ==
    \/ MainReuseBackup
    \/ MainDeclineBackup
    \/ MainNoBackup
    \/ MainNoDocuments
    \/ MainProcess
    \/ MainUploadOk
    \/ MainUploadFails
    \/ NewRun

IngestSpec == IngestInit /\ [][IngestNext]_vars

(***************************************************************************)
(* Concurrent chat requests: main.py chat (55-67), get_agent of            *)
(* dependencies.py (102-108), PolicyAgent of agent.py.  The requests run   *)
(* on worker threads; a step is one statement that reads or writes an      *)
(* attribute of an agent.                                                  *)
(***************************************************************************)
\* what a question sees of the shared index: one policy per source, at the
\* question's distances
Questions == IndexDistances \X IndexDistances

IndexFor(q) ==
    <<[text |-> 1, source |-> "a.md", distance |-> q[1]],
      [text |-> 2, source |-> "b.md", distance |-> q[2]]>>

\* RAGService.query as a function of the index and the service's settings
rag_query(ix, k, t) ==
    LET ds == Retrieve(ix, k, t)
    IN IF ds = <<>>
       THEN [answer |-> "no_relevant_information", sources |-> {}, num_docs |-> 0]
       ELSE [answer |-> "generated", sources |-> SourcesOf(ds),
             num_docs |-> Len(ds)]

NewAgent == [last_sources |-> {}]

get_agent_Cached(n) == 1

\* the instance get_agent returns when n instances exist: a new one
get_agent(n) == n + 1

ChatInit ==
    /\ ChunkerIdle /\ QueryIdle /\ IngestIdle /\ llmCalls = 0
    /\ agents = <<>> /\ agentOf = [r \in Requests |-> 0]
    /\ rpc = [r \in Requests |-> "arrived"]
    /\ returned = [r \in Requests |-> {}]
    /\ ownCalls = [r \in Requests |-> <<>>]
    /\ lastCaller = 0
    /\ response = [r \in Requests |-> NoResponse]

ChatUnchanged ==
    UNCHANGED <<entry, pc, chunkVars, breakpoints, raw, merged, docVars,
                clusterVars, queryVars, llmCalls, ingestVars>>

\* main.py 58: Depends(get_agent) resolves the request's agent
ResolveAgent(r) ==
    /\ rpc[r] = "arrived"
    /\ LET a == get_agent(Len(agents))
       IN /\ agentOf' = [agentOf EXCEPT ![r] = a]
          /\ agents' = IF a > Len(agents) THEN Append(agents, NewAgent) ELSE agents
    /\ rpc' = [rpc EXCEPT ![r] = "resolved"]
    /\ UNCHANGED <<returned, ownCalls, lastCaller, response>>
    /\ ChatUnchanged

\* agent.py 82: invoke clears _last_sources
InvokeStart(r) ==
    /\ rpc[r] = "resolved"
    /\ agents' = [agents EXCEPT ![agentOf[r]].last_sources = {}]
    /\ rpc' = [rpc EXCEPT ![r] = "running"]
    /\ UNCHANGED <<agentOf, returned, ownCalls, lastCaller, response>>
    /\ ChatUnchanged

\* agent.py 54-58: the agent calls retrieve_policies
RetrievePolicies(r) ==
    /\ rpc[r] = "running" /\ Len(ownCalls[r]) < MaxToolCalls
    /\ \E q \in Questions :
         LET result == rag_query(IndexFor(q), DefaultTopK, DefaultThreshold)
         IN /\ agents' = [agents EXCEPT ![agentOf[r]].last_sources = result.sources]
            /\ ownCalls' = [ownCalls EXCEPT ![r] = Append(@, result.sources)]
    /\ lastCaller' = r
    /\ UNCHANGED <<agentOf, rpc, returned, response>>
    /\ ChatUnchanged

\* agent.py 88-91: invoke returns the answer with _last_sources
InvokeReturn(r) ==
    /\ rpc[r] = "running"
    /\ returned' = [returned EXCEPT ![r] = agents[agentOf[r]].last_sources]
    /\ rpc' = [rpc EXCEPT ![r] = "returned"]
    /\ UNCHANGED <<agents, agentOf, ownCalls, lastCaller, response>>
    /\ ChatUnchanged

\* agent.py 84-87: the agent run raises (the model call or a tool fails)
InvokeRaises(r) ==
    /\ rpc[r] = "running"
    /\ rpc' = [rpc EXCEPT ![r] = "raised"]
    /\ UNCHANGED <<agents, agentOf, returned, ownCalls, lastCaller, response>>
    /\ ChatUnchanged

\* Python values, as far as their type matters to the response model
Str(v) == [type |-> "str", value |-> v]

Dict(ans, srcs) == [type |-> "dict", answer |-> ans, sources |-> srcs]

\* main.py 61: request.thread_id or str(uuid4())
ThreadIdOf(r) == Str(<<"thread", r>>)

\* agent.py 88-91: what invoke returns to the handler
InvokeResult(r) == Dict(Str(<<"answer", r>>), returned[r])

\* schemas.py 12-16: ChatResponse validates answer and thread_id as str
ChatResponse(ans, thread_id) ==
    IF ans.type = "str" /\ thread_id.type = "str"
    THEN [ok |-> TRUE,
          body |-> [status |-> 200, answer |-> ans.value, sources |-> {},
                    thread_id |-> thread_id.value, detail |-> ""]]
    ELSE [ok |-> FALSE, body |-> NoResponse]

InternalError ==
    [status |-> 500, answer |-> <<>>, sources |-> {}, thread_id |-> <<>>,
     detail |-> "Failed to process question"]

\* main.py 60-67: the handler builds the response, any exception gives 500
ChatRespond(r) ==
    /\ rpc[r] \in {"returned", "raised"} /\ response[r].status = 0
    /\ response' =
          [response EXCEPT ![r] =
              IF rpc[r] = "raised" THEN InternalError
              ELSE LET ans == InvokeResult(r)
                       built == ChatResponse(ans, ThreadIdOf(r))
                   IN IF built.ok THEN built.body ELSE InternalError]
    /\ UNCHANGED <<agents, agentOf, rpc, returned, ownCalls, lastCaller>>
    /\ ChatUnchanged

ChatNext ==
    \E r \in Requests :
        \/ ResolveAgent(r)
        \/ InvokeStart(r)
        \/ RetrievePolicies(r)
        \/ InvokeReturn(r)
        \/ InvokeRaises(r)
        \/ ChatRespond(r)

ChatSpec == ChatInit /\ [][ChatNext]_vars

(***************************************************************************)
(* Properties of the chunker.                                              *)
(***************************************************************************)
IsFragment(s, cs) == \E i \in 1..Len(cs) : s = cs[i]

\* C1: every chunk recursive_chunk returns is at most max_length characters
\* long, the joining spaces counted, unless it is exactly one input fragment.
C1_ChunkWithinMaxLength ==
    \A j \in 1..Len(results) :
        StrLen(results[j]) <= max_length \/ IsFragment(results[j], chunks)

AllIdentical(embs) == \A i \in 1..Len(embs) : embs[i] = embs[1]

\* C2: find_breakpoints on two or more identical embeddings returns no
\* breakpoint, whatever the percentile.
C2_IdenticalEmbeddingsNoBreakpoints ==
    (entry = "find_breakpoints" /\ pc = "done" /\ Len(embeddings) >= 2
        /\ AllIdentical(embeddings))
    => breakpoints = <<>>

NewCalls == {i \in 1..(Len(todo') - Len(todo) + 1) : todo'[i].rec}

RECURSIVE Work(_)
Work(items) ==
    IF items = <<>> THEN 0
    ELSE (IF Head(items).rec /\ Len(Head(items).chunks) >= 1
          THEN 2 * Len(Head(items).chunks) - 1 ELSE 1) + Work(Tail(items))

\* C3: every recursive call recursive_chunk makes is on a fragment sequence
\* that is not empty and strictly shorter than the one it received, and every
\* step of a running recursive_chunk strictly decreases the work that is
\* pending (2n-1 for a pending call on n fragments, 1 for a pending segment),
\* so it reaches its return.
C3_RecursiveChunkTerminates ==
    /\ [][(pc = "chunking" /\ todo # <<>> /\ Head(todo).rec /\ results' = results)
            => \A i \in NewCalls :
                 /\ Len(todo'[i].chunks) >= 1
                 /\ Len(todo'[i].chunks) < Len(Head(todo).chunks)]_vars
    /\ [][(pc = "chunking" /\ todo # <<>>) => Work(todo') < Work(todo)]_vars

C3_Witness ==
    /\ pc = "chunking"
    /\ \E i \in 1..Len(todo) :
         todo[i].rec /\ Len(todo[i].chunks) >= 2 /\ Len(todo[i].chunks) < Len(chunks)

RECURSIVE IsRunPartition(_, _)
IsRunPartition(res, cs) ==
    IF res = <<>> THEN cs = <<>>
    ELSE \E k \in 1..Len(cs) :
            /\ res[1] = JoinSp(SubSeq(cs, 1, k))
            /\ IsRunPartition(Tail(res), SubSeq(cs, k + 1, Len(cs)))

\* C4: the chunks recursive_chunk returns are, in order, the space-joins of
\* contiguous runs that partition its input fragments, and the fragments the
\* merge step of initial_split returns are the space-joins of contiguous runs
\* that partition the splitter's fragments: nothing is dropped or reordered.
C4_NoTextDropped ==
    /\ (pc = "chunking" /\ todo = <<>>) \/ (pc = "done" /\ chunks # <<>>)
          => IsRunPartition(results, chunks)
    /\ (pc \in {"done", "chunking"} /\ entry \in {"initial_split", "chunk_document"})
          => IsRunPartition(merged, raw)

C4_Witness ==
    /\ entry = "recursive_chunk" /\ pc = "done"
    /\ Len(chunks) >= 3 /\ Len(results) = 2

\* C5: the merge step of initial_split never emits an empty fragment.
C5_NoEmptyFragment ==
    \A i \in 1..Len(merged) : merged[i] # <<>> /\ StrLen(merged[i]) > 0

C5_Witness ==
    /\ entry = "initial_split" /\ pc = "done"
    /\ Len(raw) >= 2 /\ StrLen(raw[1]) >= DefaultMinLen /\ Len(merged) >= 2

\* C6: a document whose stripped text is under 100 characters, or for which
\* initial_split yields fewer than 2 fragments, is returned as one chunk
\* holding the whole stripped text, with chunk_index 0 and cluster_id 0, and
\* no embedding call is made.
C6_BypassSingleChunk ==
    (entry = "chunk_document" /\ pc = "done"
        /\ (StrLen(Strip(text)) < 100 \/ Len(merged) < 2))
    => /\ Len(docChunks) = 1
       /\ docChunks[1].text = Strip(text)
       /\ docChunks[1].metadata.chunk_index = 0
       /\ docChunks[1].metadata.cluster_id = 0
       /\ embedCalls = 0

C6_Witness ==
    /\ entry = "chunk_document" /\ pc = "done"
    /\ text = JoinSp(<<Block(1, 2), Block(2, 2), Block(3, 2)>>)
    /\ Len(docChunks) = 1

\* C7: cluster_chunks returns one id per text; fewer than 2 texts get id 0;
\* n >= 2 texts with n_clusters = k get exactly the ids 0..min(k, n)-1.
C7_ClusterIds ==
    (entry = "cluster_chunks" /\ pc = "done")
    => /\ Len(cluster_ids) = Len(texts)
       /\ (Len(texts) < 2 => \A i \in 1..Len(cluster_ids) : cluster_ids[i] = 0)
       /\ (Len(texts) >= 2 =>
             /\ Labels(cluster_ids) = 0..(Min(n_clusters, Len(texts)) - 1)
             /\ Cardinality(Labels(cluster_ids)) = Min(n_clusters, Len(texts)))

C7_Witness ==
    /\ entry = "cluster_chunks" /\ pc = "done"
    /\ Len(texts) = 3 /\ n_clusters = 2 /\ Labels(cluster_ids) = {0, 1}

(***************************************************************************)
(* Properties of retrieval.                                                *)
(***************************************************************************)
Answered == answer.answer # ""

\* C8: what the retriever returns holds only documents with distance <= t,
\* is sorted by ascending distance, and is empty when every candidate's
\* distance exceeds t.
C8_RetrieverThreshold ==
    Answered =>
       /\ \A i \in 1..Len(docs) : docs[i].distance <= threshold
       /\ \A i \in 1..Len(docs) : \A j \in i..Len(docs) :
             docs[i].distance <= docs[j].distance
       /\ (\A i \in 1..Len(index) : index[i].distance > threshold) => docs = <<>>

C8_Witness ==
    /\ Answered /\ top_k = 5 /\ threshold = 12
    /\ Len(index) = 1 /\ index[1].distance = 15
    /\ docs = <<>>

(***************************************************************************)
(* Properties of the ingestion run.                                        *)
(***************************************************************************)
\* C9: whenever the run is about to call add_documents, the backup file
\* holds exactly the chunk set that is being uploaded.
C9_BackupBeforeUpload == mpc = "upload" => backup = Valid(all_chunks)

\* C10: when add_documents raises, the run ends with the error re-raised and
\* the backup file exists, unchanged by the failure handling.
C10_BackupKeptOnFailure ==
    mpc = "raised" => (backup.state # "absent" /\ backup = backupAtUpload)

\* C11: across runs, the backup file goes from present to absent only in the
\* step in which add_documents returns in the current run; declining the
\* backup, finding no documents or chunks, and a failed upload never remove it.
C11_BackupRemovedOnlyAfterUpload ==
    [][(backup.state # "absent" /\ backup'.state = "absent")
          => /\ mpc = "upload" /\ mpc' = "done"
             /\ uploads' = Append(uploads, all_chunks)
             /\ runs' = runs]_vars

C11_Witness ==
    /\ mpc = "done" /\ runs = 2 /\ prevRun.end = "raised"
    /\ backupAtUpload.state = "valid" /\ backup.state = "absent"

C13_ReuseGoesStraightToUpload ==
    (use_backup /\ prevRun.saved /\ prevRun.end = "raised")
    => /\ mpc \in {"upload", "done", "raised"}
       /\ documents = <<>>
       /\ embedCalls = startCalls.embed /\ llmCalls = startCalls.llm
       /\ cluster_labels = NoLabels /\ failedCalls = {}
       /\ all_chunks = prevRun.chunks
       /\ (mpc = "done" => uploads[Len(uploads)] = prevRun.chunks)

C13_Witness ==
    /\ use_backup /\ prevRun.saved /\ prevRun.end = "raised"
    /\ mpc = "done" /\ Len(prevRun.chunks) = 3
    /\ embedCalls = 2 /\ llmCalls = 2

\* C14: a run that starts with a backup file that cannot be parsed gets no
\* chunks from load_chunks_backup, is not offered reuse, takes nothing from
\* the file and goes on to compute the chunks from the documents.
C14_CorruptBackupIgnored ==
    [][(mpc = "start" /\ backup.state = "corrupt")
          => /\ ~load_chunks_backup(backup).ok
             /\ mpc' = "process" /\ use_backup' = FALSE
             /\ all_chunks' = <<>> /\ uploads' = uploads]_vars

C14_Witness ==
    /\ runs = 2 /\ prevRun.end = "raised" /\ backup.state = "corrupt"
    /\ mpc = "process" /\ ~use_backup

\* C15: a run in which load_documents returns nothing, or the documents give
\* no chunk, returns without raising; that step and the end of the run leave
\* the backup file as it was, upload nothing and make no labeling call.
C15_NothingToIngest ==
    [][/\ (mpc = "process" /\ (documents' = <<>> \/ all_chunks' = <<>>))
             => /\ mpc' = "returned"
                /\ backup' = backup /\ uploads' = uploads
                /\ llmCalls' = llmCalls /\ cluster_labels' = NoLabels
                /\ saved' = FALSE
       /\ mpc = "returned"
             => /\ mpc' = "start" /\ runs' = runs + 1
                /\ backup' = backup /\ uploads' = uploads
                /\ llmCalls' = llmCalls]_vars

C15_Witness ==
    /\ mpc = "returned" /\ documents = <<>> /\ all_chunks = <<>>
    /\ runs = 2 /\ prevRun.end = "raised" /\ backup.state = "valid"
    /\ uploads = <<>> /\ llmCalls = startCalls.llm

\* C16: after label_clusters has run, its mapping has an entry for every
\* cluster id among the chunks; a cluster whose LLM call raised has the label
\* "cluster_{id}", every other cluster has the label of its own call, and
\* the run has gone on to the upload.
C16_LabelFailureIsolated ==
    (mpc \in {"upload", "done", "raised"} /\ ~use_backup)
    => /\ failedCalls \subseteq ClusterIdsOf(all_chunks)
       /\ DOMAIN cluster_labels = ClusterIdsOf(all_chunks)
       /\ \A c \in ClusterIdsOf(all_chunks) :
             /\ c \in failedCalls => cluster_labels[c] = <<"cluster_", c>>
             /\ c \notin failedCalls => cluster_labels[c] = <<"summary", c>>

C16_Witness ==
    /\ mpc = "upload" /\ ~use_backup
    /\ ClusterIdsOf(all_chunks) = {0, 1} /\ failedCalls = {0}
    /\ cluster_labels[0] = <<"cluster_", 0>>
    /\ cluster_labels[1] = <<"summary", 1>>

\* C20: on the fresh path the run makes one labeling call per distinct
\* cluster id of the aggregated chunk set; every chunk then carries the label
\* the mapping holds for its cluster id, so chunks of one cluster id carry
\* one label whatever their document; a saved backup holds these chunks, and
\* so does the upload.
C20_OneLabelPerCluster ==
    (mpc \in {"upload", "done", "raised"} /\ ~use_backup)
    => /\ llmCalls - startCalls.llm = Cardinality(ClusterIdsOf(all_chunks))
       /\ \A i \in 1..Len(all_chunks) :
             /\ all_chunks[i].metadata.cluster_id \in DOMAIN cluster_labels
             /\ all_chunks[i].metadata.cluster_label
                   = cluster_labels[all_chunks[i].metadata.cluster_id]
       /\ \A i, j \in 1..Len(all_chunks) :
             all_chunks[i].metadata.cluster_id = all_chunks[j].metadata.cluster_id
             => all_chunks[i].metadata.cluster_label
                  = all_chunks[j].metadata.cluster_label
       /\ (mpc = "upload" /\ saved)
             => load_chunks_backup(backup).chunks = all_chunks
       /\ mpc = "done" => uploads[Len(uploads)] = all_chunks

C20_Witness ==
    /\ mpc = "done" /\ ~use_backup /\ saved
    /\ Len(all_chunks) = 3 /\ llmCalls - startCalls.llm = 2
    /\ all_chunks[1].metadata.file_name # all_chunks[2].metadata.file_name
    /\ all_chunks[1].metadata.cluster_id = all_chunks[2].metadata.cluster_id
    /\ all_chunks[1].metadata.cluster_label = <<"summary", 0>>
    /\ uploads[Len(uploads)] = all_chunks

(***************************************************************************)
(* Properties of the query path.                                           *)
(***************************************************************************)
\* C17: when the retriever returns no document, RAGService.query returns the
\* fixed "couldn't find any relevant information" answer with no sources and
\* num_docs 0, and no LLM completion has been requested.
C17_NoDocsNoCompletion ==
    (Answered /\ docs = <<>>)
    => /\ answer = [answer |-> "no_relevant_information", sources |-> {},
                    num_docs |-> 0]
       /\ llmCalls = 0

C17_Witness ==
    /\ Answered /\ docs = <<>> /\ Len(index) = 2
    /\ answer.answer = "no_relevant_information" /\ llmCalls = 0

(***************************************************************************)
(* Properties of the merge step.                                           *)
(***************************************************************************)
\* fragments a splitter with chunk_size 300 can return: each fits the chunk
\* size and no two neighbours would have fitted it together
SplitterOutput(cs) ==
    /\ \A i \in 1..Len(cs) : StrLen(cs[i]) <= DefaultChunkSize
    /\ \A i \in 1..(Len(cs) - 1) :
          StrLen(cs[i]) + StrLen(cs[i + 1]) > DefaultChunkSize

\* C19: every fragment initial_split returns, other than the last, is at
\* least min_len characters long.
C19_FlushedAtMinLen ==
    (entry = "initial_split" /\ pc = "done" /\ SplitterOutput(raw))
    => \A i \in 1..(Len(merged) - 1) : StrLen(merged[i]) >= DefaultMinLen

(***************************************************************************)
(* Properties of concurrent chat requests.                                 *)
(***************************************************************************)
Range(f) == {f[i] : i \in DOMAIN f}

\* C18: in every interleaving of two chat requests, the two requests hold
\* different agent instances, and the sources invoke returns to a request
\* are those of one of that request's own retrievals, or none when it made
\* no retrieval.
C18_SourcesOfOwnRequest ==
    /\ \A r1, r2 \in Requests :
          (r1 # r2 /\ agentOf[r1] # 0) => agentOf[r1] # agentOf[r2]
    /\ \A r \in Requests :
          rpc[r] = "returned"
          => IF ownCalls[r] = <<>> THEN returned[r] = {}
             ELSE returned[r] \in Range(ownCalls[r])

C18_Witness ==
    /\ rpc[1] = "returned" /\ rpc[2] = "running" /\ lastCaller = 2
    /\ ownCalls[1] = <<{"a.md"}>> /\ ownCalls[2] = <<{"b.md"}>>
    /\ returned[1] = {"a.md"}

(***************************************************************************)
(* Properties of the breakpoints.                                          *)
(***************************************************************************)
MaxGap(embs) ==
    CHOOSE j \in 1..(Len(embs) - 1) :
        \A k \in 1..(Len(embs) - 1) :
            cosine(embs[k + 1], embs[k]) <= cosine(embs[j + 1], embs[j])

C22_ChunksNonEmptyIndexed ==
    (entry = "chunk_document" /\ pc = "done")
    => \A i \in 1..Len(docChunks) :
          /\ docChunks[i].text # <<>>
          /\ docChunks[i].metadata.chunk_index = i - 1

(***************************************************************************)
(* Properties of the sources an invocation returns.                        *)
(***************************************************************************)
\* C23: the sources invoke returns to a request include the sources of
\* every retrieval made during that invocation, and nothing else.
C23_SourcesCoverAllCalls ==
    \A r \in Requests :
        rpc[r] = "returned"
        => /\ UNION Range(ownCalls[r]) \subseteq returned[r]
           /\ returned[r] \subseteq UNION Range(ownCalls[r])

(***************************************************************************)
(* Properties of the /chat handler.                                        *)
(***************************************************************************)
\* C24: once the handler has answered a request whose invoke returned, the
\* response is a 200 ChatResponse with the agent's answer text and the
\* request's thread id; a 500 is answered only when invoke raised.
C24_ChatReturnsAnswer ==
    \A r \in Requests :
        response[r].status # 0
        => /\ rpc[r] = "returned"
                => /\ response[r].status = 200
                   /\ response[r].answer = InvokeResult(r).answer.value
                   /\ response[r].thread_id = ThreadIdOf(r).value
           /\ response[r].status = 500 => rpc[r] = "raised"

====
